---- MODULE Spec2Model ----
(***************************************************************************)
(* Opportunity / phase / artifact store of consulting-ai.                   *)
(*                                                                         *)
(* The durable backend is the relational schema of supabase_schema.sql     *)
(* (tables, foreign keys, UNIQUE constraints, row level security policies  *)
(* and the increment_artifacts_count function).  Each statement sent to    *)
(* the database is one atomic step; an Engagement Service operation that   *)
(* needs several statements is a call that stays in flight between them,   *)
(* and its next statement may fail with Unavailable.  addArtifact calls    *)
(* overlap each other (their count is kept by an atomic increment); the    *)
(* other mutations run under the single-writer discipline.                 *)
(*                                                                         *)
(* Spec is the whole service.  The properties are checked under the        *)
(* specifications of the operations they are about: SpecArtifacts,         *)
(* SpecPhases, SpecFailures, SpecOwners, SpecDelete and SpecPointers.      *)
(***************************************************************************)
EXTENDS Integers, Sequences, FiniteSets, TLC

----------------------------------------------------------------------------
\* Bounds of the model
MaxOpps      == 2    \* opportunities ever created
MaxArtifacts == 2    \* artifacts ever created
MaxCalls     == 2    \* addArtifact calls in flight at the same time
MaxTime      == 3    \* ticks of the clock
MaxPool      == 4    \* artifacts of the opportunity a context is projected from
MaxInsights  == 4    \* key insights of that opportunity
MaxRefresh   == 3    \* refresh() calls of one hook while Home is mounted
MaxRuns      == 3    \* runs of a schema script on one database

\* Owning identities (auth.users), opaque to the core
Users == {"u1", "u2"}

\* SQL NULL in an id column
NULL == 0

\* The fixed ordered phase set
PHASE_ORDER == <<"pre_assessment", "discovery", "solution_design", "implementation">>

PHASES == {PHASE_ORDER[i] : i \in 1..Len(PHASE_ORDER)}

\* Column defaults of the schema
DefaultCurrentPhase == "pre_assessment"
DefaultOppStatus    == "active"
DefaultPhaseStatus  == "not_started"
DefaultArtifactsCount == 0
DefaultCompletionPercentage == 0

ARTIFACT_TYPES == {"meeting_note", "pain_point", "process_map", "requirement",
                   "risk", "deliverable", "stakeholder_note", "other"}

\* Inputs the callers are drawn from
PhaseInputs    == {"pre_assessment", "discovery", "nonexistent_phase"}
ArtPhaseInputs == {"pre_assessment", "nonexistent_phase"}
TypeInputs     == {"pain_point", "not_a_type"}
\* free text is a sequence of characters
NameInputs     == {<< >>, <<" ">>, <<" ", "A">>}
TextInputs     == {<<" ">>, <<"A">>}
TitleInputs    == {<< >>, <<"M">>}
\* the artifact form: its mode, the type selected ("" for none), the file chosen
\* stakeholders: an ordered sequence of names
StakeholderInputs == {<< >>, <<"S", "T">>, <<"T", "S">>}
\* the tags field of the artifact form: one line of text, commas between tags
TagsInputs     == {<< >>, <<"x", ",", " ", "x">>, <<" ", "y", ",", ",", "x">>}
\* what an artifact of the pool may be: not there, or filed under a phase at
\* a time
PoolInputs     == {<<"absent", 0>>} \cup
                  ({"pre_assessment", "discovery"} \X {1, 2})
\* a completion percentage handed in from outside, for a phase
PercentInputs  == {50}
PercentPhaseInputs == {"pre_assessment"}
ModeInputs     == {"type", "file"}
SelectInputs   == {"", "pain_point"}
FileInputs     == {<< >>, <<"F">>}

VARIABLES
  opportunities,      \* rows of table opportunities
  phase_progress,     \* rows of table phase_progress
  artifacts,          \* rows of table artifacts
  active_opportunity, \* rows of table active_opportunity
  nextOppId,          \* identifier generator: next opportunity id
  nextArtId,          \* identifier generator: next artifact id
  now,                \* the clock NOW() is read from
  calls,              \* service calls in flight (between two statements)
  response,           \* what the call that returned in the last step answered
  memory,             \* the ephemeral backend: dictionaries in the process
  memResponse,        \* what the last call answered on the ephemeral backend
  auth,               \* AuthProvider: loading, user
  screen,             \* what AppContent rendered last
  hooks,              \* state of useOpportunity and of useOpportunities
  fetches,            \* requests of the hooks that have not been answered
  home,               \* state of the Home component and its handlers
  db                  \* a database the schema scripts are run on

vars == <<opportunities, phase_progress, artifacts, active_opportunity,
          nextOppId, nextArtId, now, calls, response, memory, memResponse,
          auth, screen, hooks, fetches, home, db>>

\* the browser side and the database under the schema scripts
front == <<auth, screen, hooks, fetches, home, db>>

\* the Engagement Service and its stores
back == <<opportunities, phase_progress, artifacts, active_opportunity,
          nextOppId, nextArtId, now, calls, response, memory, memResponse>>

ids == <<nextOppId, nextArtId>>

store == <<opportunities, phase_progress, artifacts, active_opportunity>>

mem == <<memory, memResponse>>

----------------------------------------------------------------------------
\* Text helpers

IsSpace(ch) == ch = " "

RECURSIVE TrimLeft(_)
TrimLeft(s) == IF s = << >> THEN s
               ELSE IF IsSpace(Head(s)) THEN TrimLeft(Tail(s)) ELSE s

RECURSIVE TrimRight(_)
TrimRight(s) == IF s = << >> THEN s
                ELSE IF IsSpace(s[Len(s)]) THEN TrimRight(SubSeq(s, 1, Len(s) - 1)) ELSE s

\* String.prototype.trim
Trim(s) == TrimRight(TrimLeft(s))

\* the part of s before its first comma
RECURSIVE UpToComma(_)
UpToComma(s) == IF s = << >> \/ Head(s) = "," THEN << >>
                ELSE <<Head(s)>> \o UpToComma(Tail(s))

\* String.prototype.split(",")
RECURSIVE Split(_)
Split(s) ==
  IF Len(UpToComma(s)) = Len(s) THEN <<s>>
  ELSE <<UpToComma(s)>> \o Split(SubSeq(s, Len(UpToComma(s)) + 2, Len(s)))

\* tags.split(",").map(t => t.trim()).filter(Boolean)
ParseTags(s) ==
  SelectSeq([i \in 1..Len(Split(s)) |-> Trim(Split(s)[i])], LAMBDA t : t # << >>)

\* the elements of a sequence
Range(seq) == {seq[i] : i \in 1..Len(seq)}

----------------------------------------------------------------------------
\* Row level security

\* USING (true): every row passes
OwnRowAny(uid, row) == TRUE

\* USING (auth.uid() = user_id)
OwnRow(uid, row) == uid = row.user_id

\* EXISTS (SELECT 1 FROM opportunities WHERE id = opp_id AND user_id = auth.uid())
OwnsOpportunity(uid, opp_id) ==
  \E o \in opportunities : o.id = opp_id /\ OwnRow(uid, o)

\* SELECT * FROM opportunities without a policy
AllOpportunities(uid) == opportunities

\* SELECT * FROM opportunities, as seen by uid
VisibleOpportunities(uid) == {o \in opportunities : OwnRow(uid, o)}

OppIds == {o.id : o \in opportunities}

OppRow(opp_id) == CHOOSE o \in opportunities : o.id = opp_id

PhaseRows(opp_id) == {r \in phase_progress : r.opportunity_id = opp_id}

ArtifactsOf(opp_id) == {a \in artifacts : a.opportunity_id = opp_id}

ArtifactsIn(opp_id, phase) == {a \in ArtifactsOf(opp_id) : a.phase = phase}

\* Opportunity.artifactsCount: the number of artifacts of the opportunity
OppArtifactsCount(opp_id) == Cardinality(ArtifactsOf(opp_id))

----------------------------------------------------------------------------
\* Statements of the schema

\* the text columns are trimmed on the way in
NewOpportunityRowTrimmed(id, uid, name, clientName, description, stakeholders) ==
  [id |-> id, user_id |-> uid,
   name |-> Trim(name), client_name |-> Trim(clientName),
   description |-> Trim(description), stakeholders |-> stakeholders,
   key_insights |-> << >>,
   current_phase |-> DefaultCurrentPhase, status |-> DefaultOppStatus,
   created_at |-> now]

\* a row of opportunities as INSERT fills it (column defaults)
NewOpportunityRow(id, uid, name, clientName, description, stakeholders) ==
  [id |-> id, user_id |-> uid,
   name |-> name, client_name |-> clientName, description |-> description,
   stakeholders |-> stakeholders, key_insights |-> << >>,
   current_phase |-> DefaultCurrentPhase, status |-> DefaultOppStatus,
   created_at |-> now]

\* a row of phase_progress inserted without its status
NewPhaseRowDefaultStatus(opp_id, phase, status, start_date) ==
  [opportunity_id |-> opp_id, phase |-> phase, status |-> DefaultPhaseStatus,
   start_date |-> start_date,
   artifacts_count |-> DefaultArtifactsCount,
   completion_percentage |-> DefaultCompletionPercentage]

\* a row of phase_progress as INSERT fills it
NewPhaseRow(opp_id, phase, status, start_date) ==
  [opportunity_id |-> opp_id, phase |-> phase, status |-> status,
   start_date |-> start_date,
   artifacts_count |-> DefaultArtifactsCount,
   completion_percentage |-> DefaultCompletionPercentage]

\* a row of artifacts as INSERT fills it
NewArtifactRow(id, opp_id, type, title, content, phase, tags) ==
  [id |-> id, opportunity_id |-> opp_id, artifact_type |-> type,
   title |-> title, content |-> content, phase |-> phase, tags |-> tags,
   created_at |-> now]

\* an opportunities row as the Opportunity a fetch returns
OpportunityOf(row) ==
  [id |-> row.id, name |-> row.name, clientName |-> row.client_name,
   description |-> row.description, stakeholders |-> row.stakeholders,
   currentPhase |-> row.current_phase, status |-> row.status,
   createdAt |-> row.created_at]

\* an artifacts row as the Artifact a fetch returns
ArtifactOf(row) ==
  [id |-> row.id, opportunityId |-> row.opportunity_id,
   artifactType |-> row.artifact_type, title |-> row.title,
   content |-> row.content, phase |-> row.phase, tags |-> row.tags,
   createdAt |-> row.created_at]

\* the UPDATE without its phase filter
increment_artifacts_count_all(opp_id, phase_name) ==
  {IF r.opportunity_id = opp_id
     THEN [r EXCEPT !.artifacts_count = @ + 1] ELSE r : r \in phase_progress}

\* UPDATE phase_progress SET artifacts_count = artifacts_count + 1
\*   WHERE opportunity_id = opp_id AND phase = phase_name
increment_artifacts_count(opp_id, phase_name) ==
  {IF r.opportunity_id = opp_id /\ r.phase = phase_name
     THEN [r EXCEPT !.artifacts_count = @ + 1] ELSE r : r \in phase_progress}

\* the foreign key without its ON DELETE action
ArtifactsKeepAll(opp_id) == artifacts

\* artifacts.opportunity_id ... ON DELETE CASCADE
ArtifactsAfterDelete(opp_id) == {a \in artifacts : a.opportunity_id # opp_id}

\* phase_progress.opportunity_id ... ON DELETE CASCADE
PhaseProgressAfterDelete(opp_id) == {r \in phase_progress : r.opportunity_id # opp_id}

\* active_opportunity.opportunity_id ... ON DELETE SET NULL
ActiveAfterDelete(opp_id) ==
  {IF r.opportunity_id = opp_id THEN [r EXCEPT !.opportunity_id = NULL] ELSE r :
     r \in active_opportunity}

\* INSERT without the UNIQUE(user_id) key
ActiveAppend(uid, opp_id) ==
  active_opportunity \cup {[user_id |-> uid, opportunity_id |-> opp_id]}

\* upsert into active_opportunity on the UNIQUE(user_id) key
ActiveUpsert(uid, opp_id) ==
  {r \in active_opportunity : r.user_id # uid}
    \cup {[user_id |-> uid, opportunity_id |-> opp_id]}

\* the row is kept
ActiveKeep(uid) == active_opportunity

\* DELETE FROM active_opportunity WHERE user_id = uid: USING (auth.uid() =
\* user_id) leaves the rows of the others out of reach, no row is no error
ActiveClear(uid) == {r \in active_opportunity : r.user_id # uid}

\* the opportunity id the pointer of uid holds, NULL when there is none
ActivePointer(uid) ==
  IF \E r \in active_opportunity : r.user_id = uid /\ r.opportunity_id # NULL
    THEN (CHOOSE r \in active_opportunity :
            r.user_id = uid /\ r.opportunity_id # NULL).opportunity_id
    ELSE NULL

----------------------------------------------------------------------------
\* Calls and responses

NoResponse == [op |-> "none", owner |-> "none", opp |-> NULL, phase |-> "none",
               result |-> "none", value |-> {}, input |-> << >>, entity |-> << >>]

\* what a call answers: result is OK or an error of the taxonomy, value what
\* comes with it (ids listed, the artifact created, the fields at fault)
Response(op, owner, opp, phase, result, value) ==
  [op |-> op, owner |-> owner, opp |-> opp, phase |-> phase,
   result |-> result, value |-> value, input |-> << >>, entity |-> << >>]

\* a response that repeats what the caller gave
WithInput(resp, input) == [resp EXCEPT !.input = input]

\* a response that carries the entity fetched
WithEntity(resp, entity) == [resp EXCEPT !.entity = entity]

Call(op, owner, opp, phase, pc, art, cur) ==
  [op |-> op, owner |-> owner, opp |-> opp, phase |-> phase, pc |-> pc,
   art |-> art, cur |-> cur, input |-> << >>]

CallsOn(opp_id) == {c \in calls : c.opp = opp_id}

\* single-writer discipline: nothing else is in flight
Quiet == calls = {}

\* addArtifact may start while only addArtifact calls are in flight
AddMayStart ==
  /\ \A c \in calls : c.op = "addArtifact"
  /\ Cardinality(calls) < MaxCalls

TargetIds == 1..MaxOpps

----------------------------------------------------------------------------
\* The browser side: its state when the page is loaded

\* no user is signed in
NoUser == "none"

\* error: string | null
NoError == "null"

HookNames == {"useOpportunity", "useOpportunities"}

\* what a fetch of a hook came back with: kind is "ok" (with the body),
\* "not_ok" (response.ok false) or "throw" (fetch rejected)
NoBody == [status |-> "none"]

NoAnswer == [kind |-> "none", body |-> NoBody]

\* useState(...) of a hook; issued counts its refresh() calls, from is the
\* call whose answer the data is (0: the initial value), answer is what its
\* last answered fetch came back with
HookInit(h) ==
  [data    |-> IF h = "useOpportunity"
                 THEN [opportunity |-> NULL, phaseArtifacts |-> << >>,
                       allArtifacts |-> << >>]
                 ELSE << >>,
   loading |-> TRUE,
   error   |-> NoError,
   issued  |-> 0,
   from    |-> 0,
   answer  |-> NoAnswer]

\* no handler of Home is running
Idle == [name |-> "none", pc |-> "done", awaits |-> 0]

\* useState(...) of Home; timers holds, for every pending splash-screen
\* timer, whether the render that set it had an opportunity; by names what
\* wrote showOpportunitySelector last
HomeInit ==
  [isCreateModalOpen       |-> FALSE,
   showOpportunitySelector |-> TRUE,
   isDrawerOpen            |-> FALSE,
   toast                   |-> "null",
   isTransitioning         |-> FALSE,
   isCreating              |-> FALSE,
   isInitialLoad           |-> TRUE,
   timers                  |-> {},
   by                      |-> "useState",
   handler                 |-> Idle]

\* what a run of a script can undo
DbContent(d) == [tables |-> d.tables, policies |-> d.policies, rows |-> d.rows]

\* the database of a new Supabase project (auth.users is there), no script
\* running: pc is the statement to run next (0: none), failed the lines of
\* the statements of this run that raised an error, rows the rows of
\* active_opportunity, serial its id sequence
DbInit ==
  [tables |-> {"auth.users"}, policies |-> {}, rows |-> {}, serial |-> 1,
   script |-> "none", mode |-> "none", pc |-> 0, failed |-> {}, runs |-> 0,
   saved |-> [tables |-> {"auth.users"}, policies |-> {}, rows |-> {}]]

InitFront ==
  /\ auth = [loading |-> TRUE, user |-> NoUser]
  /\ screen = "spinner"
  /\ hooks = [h \in HookNames |-> HookInit(h)]
  /\ fetches = {}
  /\ home = HomeInit
  /\ db = DbInit

Init ==
  /\ opportunities = {}
  /\ phase_progress = {}
  /\ artifacts = {}
  /\ active_opportunity = {}
  /\ nextOppId = 1
  /\ nextArtId = 1
  /\ now = 1
  /\ calls = {}
  /\ response = NoResponse
  /\ memory = [opportunities |-> {}, active |-> NULL]
  /\ memResponse = NoResponse
  /\ InitFront

----------------------------------------------------------------------------
\* createOpportunity(name, clientName, description)

\* the fields tested without trim()
RequiredErrorsNoTrim(name, clientName, description) ==
  {f \in {"name", "clientName", "description"} :
     \/ f = "name" /\ name = << >>
     \/ f = "clientName" /\ clientName = << >>
     \/ f = "description" /\ description = << >>}

\* validate() of the creation form: the fields it reports as required
RequiredErrors(name, clientName, description) ==
  {f \in {"name", "clientName", "description"} :
     \/ f = "name" /\ Trim(name) = << >>
     \/ f = "clientName" /\ Trim(clientName) = << >>
     \/ f = "description" /\ Trim(description) = << >>}

ValidOpportunityInput(name, clientName, description) ==
  RequiredErrors(name, clientName, description) = {}

\* status of the phase rows a new opportunity gets
InitialPhaseStatus(phase) ==
  IF phase = PHASE_ORDER[1] THEN "in_progress" ELSE DefaultPhaseStatus

\* start_date of the phase rows a new opportunity gets: the first phase is
\* entered when the opportunity is created
InitialStartDate(phase) ==
  IF phase = PHASE_ORDER[1] THEN now ELSE NULL

CreateRejected(u, name, clientName, description) ==
  /\ Quiet
  /\ ~ValidOpportunityInput(name, clientName, description)
  /\ response' = Response("createOpportunity", u, NULL, "none", "ValidationError",
                          RequiredErrors(name, clientName, description))
  /\ UNCHANGED <<store, ids, now, front, mem, calls>>

\* what the caller of createOpportunity gave
OpportunityInput(name, clientName, description, stakeholders) ==
  [name |-> name, clientName |-> clientName, description |-> description,
   stakeholders |-> stakeholders]

\* first statement: INSERT INTO opportunities
CreateInsertWith(u, name, clientName, description, stakeholders) ==
  /\ Quiet
  /\ ValidOpportunityInput(name, clientName, description)
  /\ nextOppId <= MaxOpps
  /\ opportunities' = opportunities \cup
       {NewOpportunityRow(nextOppId, u, name, clientName, description, stakeholders)}
  /\ nextOppId' = nextOppId + 1
  /\ calls' = {[Call("createOpportunity", u, nextOppId, "none", "phases", NULL, "none")
                  EXCEPT !.input = OpportunityInput(name, clientName, description,
                                                    stakeholders)]}
  /\ response' = NoResponse
  /\ UNCHANGED <<phase_progress, artifacts, active_opportunity, nextArtId, now, front, mem>>

\* createOpportunity without stakeholders
CreateInsertOpportunity(u, name, clientName, description) ==
  CreateInsertWith(u, name, clientName, description, << >>)

\* second statement: INSERT INTO phase_progress, one row per phase
CreateInsertPhases(c) ==
  /\ c.op = "createOpportunity" /\ c.pc = "phases"
  /\ calls' = calls \ {c}
  /\ phase_progress' = phase_progress \cup
       {NewPhaseRow(c.opp, p, InitialPhaseStatus(p), InitialStartDate(p)) : p \in PHASES}
  /\ response' = WithInput(Response("createOpportunity", c.owner, c.opp, "none", "OK", {}),
                           c.input)
  /\ UNCHANGED <<opportunities, artifacts, active_opportunity, ids, now, front, mem>>

\* handleSubmit of the creation form when validate() fails: the errors are
\* shown and onSubmit is not called
CreateFormErrors(u, name, clientName, description) ==
  /\ Quiet
  /\ RequiredErrors(name, clientName, description) # {}
  /\ response' = Response("CreateOpportunityModal", u, NULL, "none", "errors",
                          RequiredErrors(name, clientName, description))
  /\ UNCHANGED <<store, ids, now, front, mem, calls>>

\* handleSubmit of the creation form when validate() passes: onSubmit(formData)
\* posts the form data to createOpportunity
CreateFormSubmit(u, name, clientName, description) ==
  /\ RequiredErrors(name, clientName, description) = {}
  /\ CreateInsertOpportunity(u, name, clientName, description)

----------------------------------------------------------------------------
\* addArtifact(opportunityId, type, title, content, phase)

\* the fields at fault: a type outside the enumerated set, an empty title, an
\* empty content
ArtifactErrors(type, title, content) ==
  {f \in {"type", "title", "content"} :
     \/ f = "type" /\ type \notin ARTIFACT_TYPES
     \/ f = "title" /\ title = << >>
     \/ f = "content" /\ content = << >>}

\* the title is not looked at
ValidArtifactInputNoTitle(type, title, content) ==
  ArtifactErrors(type, title, content) \subseteq {"title"}

\* the required fields of the artifact form
ValidArtifactInput(type, title, content) ==
  ArtifactErrors(type, title, content) = {}

\* the opportunity is not among the caller's rows
AddNotFound(u, o) ==
  /\ Quiet
  /\ ~OwnsOpportunity(u, o)
  /\ response' = Response("addArtifact", u, o, "none", "NotFound", {})
  /\ UNCHANGED <<store, ids, now, front, mem, calls>>

AddRejected(u, o, type, title, content) ==
  /\ Quiet
  /\ OwnsOpportunity(u, o)
  /\ ~ValidArtifactInput(type, title, content)
  /\ response' = Response("addArtifact", u, o, "none", "ValidationError",
                          ArtifactErrors(type, title, content))
  /\ UNCHANGED <<store, ids, now, front, mem, calls>>

\* what the caller of addArtifact gave
ArtifactInput(o, type, title, content, phase, tags) ==
  [opportunityId |-> o, artifactType |-> type, title |-> title,
   content |-> content, phase |-> phase, tags |-> tags]

\* first statement: INSERT INTO artifacts
AddInsertWith(u, o, type, title, content, phase, tags) ==
  /\ AddMayStart
  /\ OwnsOpportunity(u, o)
  /\ ValidArtifactInput(type, title, content)
  /\ nextArtId <= MaxArtifacts
  /\ artifacts' = artifacts \cup
       {NewArtifactRow(nextArtId, o, type, title, content, phase, tags)}
  /\ nextArtId' = nextArtId + 1
  /\ calls' = calls \cup
       {[Call("addArtifact", u, o, phase, "increment", nextArtId, "none")
           EXCEPT !.input = ArtifactInput(o, type, title, content, phase, tags)]}
  /\ response' = NoResponse
  /\ UNCHANGED <<opportunities, phase_progress, active_opportunity, nextOppId, now, front, mem>>

\* addArtifact without tags
AddInsertArtifact(u, o, type, title, content, phase) ==
  AddInsertWith(u, o, type, title, content, phase, << >>)

\* second statement: rpc increment_artifacts_count
AddIncrement(c) ==
  /\ c.op = "addArtifact" /\ c.pc = "increment"
  /\ phase_progress' = increment_artifacts_count(c.opp, c.phase)
  /\ calls' = calls \ {c}
  /\ response' = WithInput(Response("addArtifact", c.owner, c.opp, c.phase, "OK", {c.art}),
                           c.input)
  /\ UNCHANGED <<opportunities, artifacts, active_opportunity, ids, now, front, mem>>

\* handleSubmit of the artifact form: the branches that alert and return
FormBlocked(mode, selectedType, title, content, file) ==
  \/ mode = "type" /\ (selectedType = "" \/ title = << >> \/ content = << >>)
  \/ mode = "file" /\ (selectedType = "" \/ title = << >> \/ file = << >>)

\* the content handed to onSubmit
FormContent(mode, content, file) ==
  IF mode = "file" THEN <<"File: ">> \o file ELSE content

AddFormAlert(u, mode, selectedType, title, content, file) ==
  /\ Quiet
  /\ FormBlocked(mode, selectedType, title, content, file)
  /\ response' = Response("AddArtifactModal", u, NULL, "none", "alert", {})
  /\ UNCHANGED <<store, ids, now, front, mem, calls>>

\* onSubmit of the artifact form: handleArtifactAdd posts the form data to
\* addArtifact of the opportunity on display, under the phase on display
AddFormSubmit(u, o, mode, selectedType, title, content, file, tags, phase) ==
  /\ ~FormBlocked(mode, selectedType, title, content, file)
  /\ AddInsertWith(u, o, selectedType, title,
                   FormContent(mode, content, file), phase, ParseTags(tags))

----------------------------------------------------------------------------
\* changePhase(opportunityId, targetPhase)

\* no membership test
IsValidPhaseLoose(phase) == TRUE

\* membership in the defined phase set
IsValidPhase(phase) == phase \in PHASES

ChangeNotFound(u, o) ==
  /\ Quiet
  /\ ~OwnsOpportunity(u, o)
  /\ response' = Response("changePhase", u, o, "none", "NotFound", {})
  /\ UNCHANGED <<store, ids, now, front, mem, calls>>

ChangeRejected(u, o, target) ==
  /\ Quiet
  /\ OwnsOpportunity(u, o)
  /\ ~IsValidPhase(target)
  /\ response' = Response("changePhase", u, o, target, "InvalidPhaseError", {})
  /\ UNCHANGED <<store, ids, now, front, mem, calls>>

\* read the opportunity (the phase it is in is the phase being left), then
\* UPDATE opportunities SET current_phase = target WHERE id = opp
ChangeUpdateOpp(u, o, target) ==
  /\ Quiet
  /\ OwnsOpportunity(u, o)
  /\ IsValidPhase(target)
  /\ opportunities' =
       {IF row.id = o THEN [row EXCEPT !.current_phase = target] ELSE row :
          row \in opportunities}
  /\ calls' = {Call("changePhase", u, o, target, "update_phases", NULL,
                    OppRow(o).current_phase)}
  /\ response' = NoResponse
  /\ UNCHANGED <<phase_progress, artifacts, active_opportunity, ids, now, front, mem>>

\* the phase being left: in_progress becomes completed
Leave(rows, opp_id, phase) ==
  {IF r.opportunity_id = opp_id /\ r.phase = phase /\ r.status = "in_progress"
     THEN [r EXCEPT !.status = "completed"] ELSE r : r \in rows}

\* the phase being entered is left as it is
EnterKeep(rows, opp_id, phase) == rows

\* the position of a phase in the order
PhaseIndex(phase) == CHOOSE i \in 1..Len(PHASE_ORDER) : PHASE_ORDER[i] = phase

\* the phases skipped over on the way to the phase entered are completed too
EnterCompletingSkipped(rows, opp_id, phase) ==
  {IF r.opportunity_id = opp_id /\ r.status = "not_started"
     THEN IF r.phase = phase
            THEN [r EXCEPT !.status = "in_progress", !.start_date = now]
            ELSE IF PhaseIndex(r.phase) < PhaseIndex(phase)
                   THEN [r EXCEPT !.status = "completed"] ELSE r
     ELSE r : r \in rows}

\* the row of the phase entered starts over
EnterResetting(rows, opp_id, phase) ==
  {IF r.opportunity_id = opp_id /\ r.phase = phase
     THEN [r EXCEPT !.status = "in_progress", !.start_date = now,
                    !.completion_percentage = DefaultCompletionPercentage]
     ELSE r : r \in rows}

\* start_date is stamped on every entry
EnterStampingAgain(rows, opp_id, phase) ==
  {IF r.opportunity_id = opp_id /\ r.phase = phase
     THEN [r EXCEPT !.status = IF @ = "not_started" THEN "in_progress" ELSE @,
                    !.start_date = now]
     ELSE r : r \in rows}

\* the phase being entered: not_started becomes in_progress and start_date is
\* set
Enter(rows, opp_id, phase) ==
  {IF r.opportunity_id = opp_id /\ r.phase = phase /\ r.status = "not_started"
     THEN [r EXCEPT !.status = "in_progress", !.start_date = now]
     ELSE r : r \in rows}

\* UPDATE phase_progress for the phase left and the phase entered; the answer
\* tells which phase was left
ChangeUpdatePhases(c) ==
  /\ c.op = "changePhase" /\ c.pc = "update_phases"
  /\ calls' = calls \ {c}
  /\ phase_progress' = Enter(Leave(phase_progress, c.opp, c.cur), c.opp, c.phase)
  /\ response' = Response("changePhase", c.owner, c.opp, c.phase, "OK", {c.cur})
  /\ UNCHANGED <<opportunities, artifacts, active_opportunity, ids, now, front, mem>>

----------------------------------------------------------------------------
\* completion percentage: data passed through

\* UPDATE phase_progress SET completion_percentage = pct
\*   WHERE opportunity_id = o AND phase = phase, on the caller's rows
SetCompletion(u, o, phase, pct) ==
  /\ Quiet
  /\ OwnsOpportunity(u, o)
  /\ phase_progress' =
       {IF r.opportunity_id = o /\ r.phase = phase
          THEN [r EXCEPT !.completion_percentage = pct] ELSE r : r \in phase_progress}
  /\ response' = Response("setCompletion", u, o, phase, "OK", {})
  /\ UNCHANGED <<opportunities, artifacts, active_opportunity, ids, now, front, mem, calls>>

----------------------------------------------------------------------------
\* activate(ownerId, opportunityId)

ActivateNotFound(u, o) ==
  /\ Quiet
  /\ ~(\E row \in VisibleOpportunities(u) : row.id = o)
  /\ response' = Response("activate", u, o, "none", "NotFound", {})
  /\ UNCHANGED <<store, ids, now, front, mem, calls>>

\* SELECT the opportunity, then upsert the pointer; the answer tells which
\* opportunity the row held before
Activate(u, o) ==
  /\ Quiet
  /\ \E row \in VisibleOpportunities(u) : row.id = o
  /\ active_opportunity' = ActiveUpsert(u, o)
  /\ response' = Response("activate", u, o, "none", "OK", {ActivePointer(u)} \ {NULL})
  /\ UNCHANGED <<opportunities, phase_progress, artifacts, ids, now, front, mem, calls>>

\* clear(ownerId): the answer tells which opportunity the pointer held
Clear(u) ==
  /\ Quiet
  /\ active_opportunity' = ActiveClear(u)
  /\ response' = Response("clear", u, NULL, "none", "OK", {ActivePointer(u)} \ {NULL})
  /\ UNCHANGED <<opportunities, phase_progress, artifacts, ids, now, front, mem, calls>>

----------------------------------------------------------------------------
\* deleteOpportunity(opportunityId)

DeleteNotFound(u, o) ==
  /\ Quiet
  /\ ~OwnsOpportunity(u, o)
  /\ response' = Response("deleteOpportunity", u, o, "none", "NotFound", {})
  /\ UNCHANGED <<store, ids, now, front, mem, calls>>

\* DELETE FROM opportunities WHERE id = opp, with the actions of its foreign keys
DeleteOpportunity(u, o) ==
  /\ Quiet
  /\ OwnsOpportunity(u, o)
  /\ opportunities' = {row \in opportunities : row.id # o}
  /\ phase_progress' = PhaseProgressAfterDelete(o)
  /\ artifacts' = ArtifactsAfterDelete(o)
  /\ active_opportunity' = ActiveAfterDelete(o)
  /\ response' = Response("deleteOpportunity", u, o, "none", "OK", {})
  /\ UNCHANGED <<ids, now, front, mem, calls>>

----------------------------------------------------------------------------
\* reads

ListOpportunities(u) ==
  /\ Quiet
  /\ response' = Response("listOpportunities", u, NULL, "none", "OK",
                          {row.id : row \in VisibleOpportunities(u)})
  /\ UNCHANGED <<store, ids, now, front, mem, calls>>

\* the opportunity the pointer of u names, NULL for none selected
GetActive(u) ==
  IF \E row \in VisibleOpportunities(u) : row.id = ActivePointer(u)
    THEN ActivePointer(u) ELSE NULL

GetActiveContext(u) ==
  /\ Quiet
  /\ response' = Response("getActiveContext", u, GetActive(u), "none",
                          IF GetActive(u) = NULL THEN "NoActive" ELSE "OK",
                          {a.id : a \in ArtifactsOf(GetActive(u))})
  /\ UNCHANGED <<store, ids, now, front, mem, calls>>

\* what one fetch of an opportunity with its phase rows and its artifacts
\* returns: the opportunity's count, the count column of each phase row, the
\* artifacts with the phase they are filed under
Snapshot(opp_id) ==
  [artifactsCount |-> OppArtifactsCount(opp_id),
   phaseCounts |-> {<<r.phase, r.artifacts_count>> : r \in PhaseRows(opp_id)},
   artifacts |-> {<<a.id, a.phase>> : a \in ArtifactsOf(opp_id)}]

\* getActiveContext while addArtifact calls are in flight: a read waits for
\* no writer, and sees what the statements that have run have written
GetActiveContextDuringAdd(u) ==
  /\ calls # {}
  /\ \A c \in calls : c.op = "addArtifact"
  /\ GetActive(u) # NULL
  /\ response' = Response("getActiveContext", u, GetActive(u), "during_add", "OK",
                          Snapshot(GetActive(u)))
  /\ UNCHANGED <<store, ids, now, front, mem, calls>>

\* SELECT * FROM artifacts WHERE id = aid, as seen by u
ArtifactVisible(u, aid) ==
  \E a \in artifacts : a.id = aid /\ OwnsOpportunity(u, a.opportunity_id)

GetArtifact(u, aid) ==
  /\ Quiet
  /\ response' =
       WithEntity(Response("getArtifact", u, NULL, "none",
                           IF ArtifactVisible(u, aid) THEN "OK" ELSE "NotFound", {aid}),
                  IF ArtifactVisible(u, aid)
                    THEN ArtifactOf(CHOOSE a \in artifacts : a.id = aid) ELSE << >>)
  /\ UNCHANGED <<store, ids, now, front, mem, calls>>

\* SELECT * FROM opportunities WHERE id = o, as seen by u
GetOpportunity(u, o) ==
  /\ Quiet
  /\ response' =
       WithEntity(Response("getOpportunity", u, o, "none",
                           IF OwnsOpportunity(u, o) THEN "OK" ELSE "NotFound", {}),
                  IF OwnsOpportunity(u, o) THEN OpportunityOf(OppRow(o)) ELSE << >>)
  /\ UNCHANGED <<store, ids, now, front, mem, calls>>

----------------------------------------------------------------------------
\* the backend is unreachable for the next statement of a call in flight:
\* the call ends there, what it wrote before stays written

FailUnavailable(c) ==
  /\ calls' = calls \ {c}
  /\ response' = Response(c.op, c.owner, c.opp, c.phase, "Unavailable", {})
  /\ UNCHANGED <<store, ids, now, front, mem>>

----------------------------------------------------------------------------
\* Context projection

\* artifacts listed per phase in a projected context
ArtifactCap == 2

\* key insights shown: keyInsights.slice(0, 3)
InsightCap == 3

\* a is at least as recent as b (created later, or at the same time with the
\* greater id)
AsRecent(a, b) ==
  \/ a.created_at > b.created_at
  \/ a.created_at = b.created_at /\ a.id >= b.id

\* every artifact of S, most recent first
RECURSIVE RecentAll(_, _)
RecentAll(S, n) ==
  IF S = {} THEN << >>
  ELSE <<(CHOOSE a \in S : \A b \in S : AsRecent(a, b)).id>>
         \o RecentAll(S \ {CHOOSE a \in S : \A b \in S : AsRecent(a, b)}, n)

\* the ids of the n most recent artifacts of S, most recent first
RECURSIVE Recent(_, _)
Recent(S, n) ==
  IF n = 0 \/ S = {} THEN << >>
  ELSE <<(CHOOSE a \in S : \A b \in S : AsRecent(a, b)).id>>
         \o Recent(S \ {CHOOSE a \in S : \A b \in S : AsRecent(a, b)}, n - 1)

\* Array.prototype.slice(0, n)
Slice0(seq, n) == SubSeq(seq, 1, IF Len(seq) < n THEN Len(seq) ELSE n)

\* projectContext(opportunity, artifacts)
ProjectContext(row, arts) ==
  [name |-> row.name, clientName |-> row.client_name,
   description |-> row.description, currentPhase |-> row.current_phase,
   artifacts |-> [p \in PHASES |-> Recent({a \in arts : a.phase = p}, ArtifactCap)],
   keyInsights |-> Slice0(row.key_insights, InsightCap)]

\* the context of the caller's opportunity o
GetContext(u, o) ==
  /\ Quiet
  /\ OwnsOpportunity(u, o)
  /\ response' = WithEntity(Response("projectContext", u, o, "none", "OK", {}),
                            ProjectContext(OppRow(o), ArtifactsOf(o)))
  /\ UNCHANGED <<store, ids, now, front, calls, mem>>

\* UPDATE opportunities SET key_insights = key_insights || text WHERE id = o
AppendInsight(u, o, text) ==
  /\ Quiet
  /\ OwnsOpportunity(u, o)
  /\ Len(OppRow(o).key_insights) < MaxInsights
  /\ opportunities' =
       {IF row.id = o THEN [row EXCEPT !.key_insights = Append(@, text)] ELSE row :
          row \in opportunities}
  /\ response' = Response("appendInsight", u, o, "none", "OK", {})
  /\ UNCHANGED <<phase_progress, artifacts, active_opportunity, ids, now, front, calls, mem>>

\* an opportunity of u1 holding any artifacts of the pool, counted in its
\* phase rows
InitProject ==
  /\ now = MaxTime
  /\ opportunities = {NewOpportunityRow(1, "u1", <<"A">>, <<"A">>, <<"A">>, << >>)}
  /\ \E f \in [1..MaxPool -> PoolInputs] :
       /\ artifacts =
            {[NewArtifactRow(i, 1, "pain_point", <<"M">>, <<"M">>, f[i][1], << >>)
                EXCEPT !.created_at = f[i][2]] : i \in {j \in 1..MaxPool : f[j][1] # "absent"}}
       /\ phase_progress =
            {[NewPhaseRow(1, p, InitialPhaseStatus(p), InitialStartDate(p))
                EXCEPT !.artifacts_count =
                  Cardinality({j \in 1..MaxPool : f[j][1] = p})] : p \in PHASES}
  /\ active_opportunity = {}
  /\ nextOppId = 2
  /\ nextArtId = MaxPool + 1
  /\ calls = {}
  /\ response = NoResponse
  /\ memory = [opportunities |-> {}, active |-> NULL]
  /\ memResponse = NoResponse
  /\ InitFront

----------------------------------------------------------------------------
\* The ephemeral backend: opportunities in a dictionary keyed by id, their
\* artifacts stored within them, one active opportunity for the process.
\* Nothing in it names an owner.

MemIds == {m.id : m \in memory.opportunities}

MemArtifactIds == UNION {m.artifacts : m \in memory.opportunities}

MemCreate(id) ==
  [memory EXCEPT !.opportunities = @ \cup {[id |-> id, artifacts |-> {}]}]

MemAdd(id, art) ==
  [memory EXCEPT !.opportunities =
     {IF m.id = id THEN [m EXCEPT !.artifacts = @ \cup {art}] ELSE m : m \in @}]

MemDelete(id) ==
  [memory EXCEPT !.opportunities = {m \in @ : m.id # id},
                 !.active = IF @ = id THEN NULL ELSE @]

MemActivate(id) == [memory EXCEPT !.active = id]

----------------------------------------------------------------------------
\* One call answered by both backends: by the durable one as all its
\* statements run without a failure in between, by the ephemeral one in the
\* process.

BothCreate(u, name, clientName, description) ==
  /\ Quiet
  /\ ValidOpportunityInput(name, clientName, description)
  /\ nextOppId <= MaxOpps
  /\ opportunities' = opportunities \cup
       {NewOpportunityRow(nextOppId, u, name, clientName, description, << >>)}
  /\ phase_progress' = phase_progress \cup
       {NewPhaseRow(nextOppId, p, InitialPhaseStatus(p), InitialStartDate(p)) : p \in PHASES}
  /\ nextOppId' = nextOppId + 1
  /\ response' = Response("createOpportunity", u, nextOppId, "none", "OK", {})
  /\ memory' = MemCreate(nextOppId)
  /\ memResponse' = Response("createOpportunity", u, nextOppId, "none", "OK", {})
  /\ UNCHANGED <<artifacts, active_opportunity, nextArtId, now, front, calls>>

BothAdd(u, o, type, title, content, phase) ==
  /\ Quiet
  /\ ValidArtifactInput(type, title, content)
  /\ nextArtId <= MaxArtifacts
  /\ IF OwnsOpportunity(u, o)
       THEN /\ artifacts' = artifacts \cup
                 {NewArtifactRow(nextArtId, o, type, title, content, phase, << >>)}
            /\ phase_progress' = increment_artifacts_count(o, phase)
            /\ response' = Response("addArtifact", u, o, phase, "OK", {nextArtId})
       ELSE /\ UNCHANGED <<artifacts, phase_progress>>
            /\ response' = Response("addArtifact", u, o, "none", "NotFound", {})
  /\ IF o \in MemIds
       THEN /\ memory' = MemAdd(o, nextArtId)
            /\ memResponse' = Response("addArtifact", u, o, phase, "OK", {nextArtId})
       ELSE /\ memory' = memory
            /\ memResponse' = Response("addArtifact", u, o, "none", "NotFound", {})
  /\ nextArtId' = nextArtId + 1
  /\ UNCHANGED <<opportunities, active_opportunity, nextOppId, now, front, calls>>

BothActivate(u, o) ==
  /\ Quiet
  /\ IF \E row \in VisibleOpportunities(u) : row.id = o
       THEN /\ active_opportunity' = ActiveUpsert(u, o)
            /\ response' = Response("activate", u, o, "none", "OK", {})
       ELSE /\ active_opportunity' = active_opportunity
            /\ response' = Response("activate", u, o, "none", "NotFound", {})
  /\ IF o \in MemIds
       THEN /\ memory' = MemActivate(o)
            /\ memResponse' = Response("activate", u, o, "none", "OK", {})
       ELSE /\ memory' = memory
            /\ memResponse' = Response("activate", u, o, "none", "NotFound", {})
  /\ UNCHANGED <<opportunities, phase_progress, artifacts, ids, now, front, calls>>

BothDelete(u, o) ==
  /\ Quiet
  /\ IF OwnsOpportunity(u, o)
       THEN /\ opportunities' = {row \in opportunities : row.id # o}
            /\ phase_progress' = PhaseProgressAfterDelete(o)
            /\ artifacts' = ArtifactsAfterDelete(o)
            /\ active_opportunity' = ActiveAfterDelete(o)
            /\ response' = Response("deleteOpportunity", u, o, "none", "OK", {})
       ELSE /\ UNCHANGED store
            /\ response' = Response("deleteOpportunity", u, o, "none", "NotFound", {})
  /\ IF o \in MemIds
       THEN /\ memory' = MemDelete(o)
            /\ memResponse' = Response("deleteOpportunity", u, o, "none", "OK", {})
       ELSE /\ memory' = memory
            /\ memResponse' = Response("deleteOpportunity", u, o, "none", "NotFound", {})
  /\ UNCHANGED <<ids, now, front, calls>>

BothList(u) ==
  /\ Quiet
  /\ response' = Response("listOpportunities", u, NULL, "none", "OK",
                          {row.id : row \in VisibleOpportunities(u)})
  /\ memResponse' = Response("listOpportunities", u, NULL, "none", "OK", MemIds)
  /\ UNCHANGED <<store, ids, now, front, calls, memory>>

BothGetActive(u) ==
  /\ Quiet
  /\ response' = Response("getActiveContext", u, GetActive(u), "none",
                          IF GetActive(u) = NULL THEN "NoActive" ELSE "OK",
                          {a.id : a \in ArtifactsOf(GetActive(u))})
  /\ memResponse' =
       Response("getActiveContext", u, memory.active, "none",
                IF memory.active = NULL THEN "NoActive" ELSE "OK",
                UNION {m.artifacts : m \in {x \in memory.opportunities :
                                               x.id = memory.active}})
  /\ UNCHANGED <<store, ids, now, front, calls, memory>>

----------------------------------------------------------------------------
\* time passes

Tick ==
  /\ now < MaxTime
  /\ now' = now + 1
  /\ response' = NoResponse
  /\ UNCHANGED <<store, ids, calls, mem, front>>

----------------------------------------------------------------------------
\* The browser side: AppContent, the hooks useOpportunity and useOpportunities

\* AppContent without the test of user
AppContentNoUserCheck(loading, user) == IF loading THEN "spinner" ELSE "home"

\* what AppContent returns
AppContent(loading, user) ==
  IF loading THEN "spinner"
  ELSE IF user = NoUser THEN "login"
  ELSE "home"

\* bodies GET /opportunities/active and GET /opportunities answer with
Bodies(h) ==
  IF h = "useOpportunity"
    THEN {[opportunity |-> o, phaseArtifacts |-> << >>, allArtifacts |-> << >>] :
            o \in {NULL, 1}}
    ELSE {[opportunities |-> <<1>>], [detail |-> "x"]}

\* what the hook keeps of a body: result, or result.opportunities || []
DataOf(h, body) ==
  IF h = "useOpportunity" THEN body
  ELSE IF "opportunities" \in DOMAIN body THEN body.opportunities ELSE << >>

\* refresh() up to its fetch: setLoading(true); setError(null)
Refreshing(st) == [st EXCEPT !.loading = TRUE, !.error = NoError, !.issued = @ + 1]

\* the request that refresh() of hook h sends next
Request(h) == [hook |-> h, n |-> hooks[h].issued + 1]

\* setData(result); finally setLoading(false)
Succeeded(st, h, n, body) ==
  [st EXCEPT !.data = DataOf(h, body), !.from = n, !.loading = FALSE,
             !.answer = [kind |-> "ok", body |-> body]]

\* a failed refresh() that forgets the data it had
FailedClearing(st, h, kind, msg) ==
  [st EXCEPT !.data = HookInit(h).data, !.from = 0, !.error = msg,
             !.loading = FALSE, !.answer = [kind |-> kind, body |-> NoBody]]

\* catch: setError(err.message); finally setLoading(false)
Failed(st, h, kind, msg) ==
  [st EXCEPT !.error = msg, !.loading = FALSE,
             !.answer = [kind |-> kind, body |-> NoBody]]

\* the dependencies of Home's initial-load effect: [opportunity, loading,
\* oppsLoading]; every answer brings a new opportunity object
Deps(hk) ==
  <<IF hk["useOpportunity"].data.opportunity = NULL THEN 0
    ELSE hk["useOpportunity"].from,
    hk["useOpportunity"].loading, hk["useOpportunities"].loading>>

\* Home's initial-load effect after a render with the hooks hk: when a
\* dependency changed and nothing is loading, it sets the 800 ms timer
AfterRender(hm, hk) ==
  IF /\ Deps(hk) # Deps(hooks)
     /\ ~hk["useOpportunity"].loading
     /\ ~hk["useOpportunities"].loading
    THEN [hm EXCEPT !.timers = @ \cup {hk["useOpportunity"].data.opportunity # NULL}]
    ELSE hm

\* Home is mounted: both hooks run their effect, void refresh()
Mounted ==
  /\ hooks' = [h \in HookNames |-> Refreshing(HookInit(h))]
  /\ fetches' = {[hook |-> h, n |-> 1] : h \in HookNames}
  /\ home' = HomeInit

\* Home is unmounted: its state is gone, answers to come are dropped
Unmounted ==
  /\ hooks' = [h \in HookNames |-> HookInit(h)]
  /\ fetches' = {}
  /\ home' = HomeInit

\* AuthProvider sets loading and user, AppContent renders
SetAuth(a) ==
  /\ auth' = a
  /\ screen' = AppContent(a.loading, a.user)
  /\ IF AppContent(a.loading, a.user) = "home" /\ screen # "home" THEN Mounted
     ELSE IF AppContent(a.loading, a.user) # "home" /\ screen = "home" THEN Unmounted
     ELSE UNCHANGED <<hooks, fetches, home>>
  /\ UNCHANGED <<back, db>>

\* the auth check finishes with a session of user u, or with none
SessionChecked(u) ==
  /\ auth.loading
  /\ SetAuth([loading |-> FALSE, user |-> u])

SignIn(u) ==
  /\ ~auth.loading
  /\ auth.user = NoUser
  /\ SetAuth([auth EXCEPT !.user = u])

SignOut ==
  /\ ~auth.loading
  /\ auth.user # NoUser
  /\ SetAuth([auth EXCEPT !.user = NoUser])

\* the hooks change to hk and Home, changed to hm by the step, renders
Render(hm, hk) ==
  /\ hooks' = hk
  /\ home' = AfterRender(hm, hk)

\* refresh(): the fetch of f resolves with response.ok and the body
RefreshOk(f, body) ==
  /\ screen = "home"
  /\ f \in fetches
  /\ fetches' = fetches \ {f}
  /\ Render(home, [hooks EXCEPT ![f.hook] = Succeeded(@, f.hook, f.n, body)])
  /\ UNCHANGED <<back, auth, screen, db>>

\* refresh(): the fetch of f resolves with a status that is not OK
RefreshNotOk(f) ==
  /\ screen = "home"
  /\ f \in fetches
  /\ fetches' = fetches \ {f}
  /\ Render(home, [hooks EXCEPT ![f.hook] =
                     Failed(@, f.hook, "not_ok",
                            IF f.hook = "useOpportunity"
                              THEN "Failed to fetch opportunity"
                              ELSE "Failed to fetch opportunities")])
  /\ UNCHANGED <<back, auth, screen, db>>

\* refresh(): the fetch of f rejects
RefreshThrow(f) ==
  /\ screen = "home"
  /\ f \in fetches
  /\ fetches' = fetches \ {f}
  /\ Render(home, [hooks EXCEPT ![f.hook] =
                     Failed(@, f.hook, "throw", "Failed to fetch")])
  /\ UNCHANGED <<back, auth, screen, db>>

\* a handler or ChatKit calls refresh() of hook h
RefreshStart(hm, h) ==
  /\ hooks[h].issued < MaxRefresh
  /\ fetches' = fetches \cup {Request(h)}
  /\ Render(hm, [hooks EXCEPT ![h] = Refreshing(@)])

\* the chat is what Home shows
ChatShown ==
  /\ screen = "home"
  /\ ~home.isInitialLoad
  /\ ~home.showOpportunitySelector
  /\ hooks["useOpportunity"].data.opportunity # NULL

\* the selector is what Home shows
SelectorShown ==
  /\ screen = "home"
  /\ ~home.isInitialLoad
  /\ home.showOpportunitySelector

\* ChatKitPanel onResponseEnd={refresh}
ChatResponseEnd ==
  /\ ChatShown
  /\ RefreshStart(home, "useOpportunity")
  /\ UNCHANGED <<back, auth, screen, db>>

\* the 800 ms timer of the initial-load effect fires
TimerFires(t) ==
  /\ screen = "home"
  /\ t \in home.timers
  /\ home' = [home EXCEPT !.timers = @ \ {t}, !.isInitialLoad = FALSE,
                          !.showOpportunitySelector = ~t, !.by = "timer"]
  /\ UNCHANGED <<back, auth, screen, hooks, fetches, db>>

----------------------------------------------------------------------------
\* The handlers of Home.  A handler runs from one await to the next in one
\* step; pc names the await it stands at: "create" (POST /opportunities),
\* "fetch" (its request: activate, DELETE, phase, artifacts), "first" and
\* "second" (its two awaited refresh calls), "delay" (the 300 ms pause).

HandlerNames == {"select", "create", "delete", "phase", "artifact"}

\* the blurred overlay of the selector screen
Overlay == home.isTransitioning \/ home.isCreating

\* nothing of the selector screen can be pressed
SelectorFree ==
  /\ SelectorShown
  /\ ~Overlay
  /\ ~home.isCreateModalOpen
  /\ home.handler = Idle

\* the hook whose refresh a handler awaits first, and the other one
FirstHook(name) == IF name = "delete" THEN "useOpportunities" ELSE "useOpportunity"

SecondHook(name) == IF name = "delete" THEN "useOpportunity" ELSE "useOpportunities"

\* Home stays as it is, the handler moves
At(hm, name, pc, awaits) ==
  [hm EXCEPT !.handler = [name |-> name, pc |-> pc, awaits |-> awaits]]

\* onCreateNew={() => setIsCreateModalOpen(true)}
OpenCreateModal ==
  /\ SelectorFree
  /\ home' = [home EXCEPT !.isCreateModalOpen = TRUE]
  /\ UNCHANGED <<back, auth, screen, hooks, fetches, db>>

\* onClick={() => setIsDrawerOpen(true)}
OpenDrawer ==
  /\ ChatShown
  /\ ~home.isDrawerOpen
  /\ home' = [home EXCEPT !.isDrawerOpen = TRUE]
  /\ UNCHANGED <<back, auth, screen, hooks, fetches, db>>

\* onClose={() => setToast(null)}
CloseToast ==
  /\ screen = "home"
  /\ home.toast # "null"
  /\ home' = [home EXCEPT !.toast = "null"]
  /\ UNCHANGED <<back, auth, screen, hooks, fetches, db>>

\* handleChangeOpportunity (Switch Opportunity)
handleChangeOpportunity ==
  /\ ChatShown
  /\ home' = [home EXCEPT !.isCreating = FALSE, !.isTransitioning = FALSE,
                          !.showOpportunitySelector = TRUE, !.by = "switch"]
  /\ UNCHANGED <<back, auth, screen, hooks, fetches, db>>

\* a handler is entered and runs up to its first await
Entered(hm, name) ==
  IF name = "select"
    THEN At([hm EXCEPT !.isTransitioning = TRUE, !.isCreating = FALSE],
            name, "fetch", 0)
  ELSE IF name = "create"
    THEN At([hm EXCEPT !.isCreateModalOpen = FALSE, !.isCreating = TRUE],
            name, "create", 0)
  ELSE At(hm, name, "fetch", 0)

\* where the handler can be called from
MayEnter(name) ==
  IF name \in {"select", "delete"} THEN SelectorFree
  ELSE IF name = "create"
    THEN SelectorShown /\ home.isCreateModalOpen /\ home.handler = Idle
  ELSE ChatShown /\ home.isDrawerOpen /\ home.handler = Idle

HandlerStart(name) ==
  /\ MayEnter(name)
  /\ home' = Entered(home, name)
  /\ UNCHANGED <<back, auth, screen, hooks, fetches, db>>

\* handleCreateOpportunity: POST /opportunities answered OK
CreateOk ==
  /\ screen = "home"
  /\ home.handler.pc = "create"
  /\ home' = At([home EXCEPT !.isCreating = FALSE, !.isTransitioning = TRUE],
                "create", "fetch", 0)
  /\ UNCHANGED <<back, auth, screen, hooks, fetches, db>>

\* handleCreateOpportunity: response.ok is false, the if is skipped
CreateNotOkDone(hm) == [hm EXCEPT !.handler = Idle]

\* handleCreateOpportunity: POST /opportunities answered with another status
CreateNotOk ==
  /\ screen = "home"
  /\ home.handler.pc = "create"
  /\ home' = CreateNotOkDone(home)
  /\ UNCHANGED <<back, auth, screen, hooks, fetches, db>>

\* handleCreateOpportunity: POST /opportunities rejects; catch
CreateThrow ==
  /\ screen = "home"
  /\ home.handler.pc = "create"
  /\ home' = [home EXCEPT !.toast = "error", !.isCreating = FALSE,
                          !.isTransitioning = FALSE, !.handler = Idle]
  /\ UNCHANGED <<back, auth, screen, hooks, fetches, db>>

\* what a handler sets when its request is answered OK, before refresh()
OnOk(hm, name) ==
  IF name = "phase" THEN [hm EXCEPT !.toast = "success", !.isDrawerOpen = FALSE]
  ELSE IF name = "artifact" THEN [hm EXCEPT !.toast = "success"]
  ELSE hm

\* the request of the handler is answered OK: it calls its first refresh()
FetchOk ==
  /\ screen = "home"
  /\ home.handler.pc = "fetch"
  /\ RefreshStart(At(OnOk(home, home.handler.name), home.handler.name, "first",
                     Request(FirstHook(home.handler.name)).n),
                  FirstHook(home.handler.name))
  /\ UNCHANGED <<back, auth, screen, db>>

\* the request of the handler is answered with a status that is not OK
FetchNotOk ==
  /\ screen = "home"
  /\ home.handler.pc = "fetch"
  /\ home' =
       IF home.handler.name \in {"select", "create"}
         THEN [home EXCEPT !.isTransitioning = FALSE, !.handler = Idle]
         ELSE [home EXCEPT !.toast = "error", !.handler = Idle]
  /\ UNCHANGED <<back, auth, screen, hooks, fetches, db>>

\* the request of the handler rejects: catch (and finally)
FetchThrow ==
  /\ screen = "home"
  /\ home.handler.pc = "fetch"
  /\ home' =
       IF home.handler.name = "select"
         THEN [home EXCEPT !.isTransitioning = FALSE, !.handler = Idle]
       ELSE IF home.handler.name = "create"
         THEN [home EXCEPT !.toast = "error", !.isCreating = FALSE,
                           !.isTransitioning = FALSE, !.handler = Idle]
       ELSE [home EXCEPT !.toast = "error", !.handler = Idle]
  /\ UNCHANGED <<back, auth, screen, hooks, fetches, db>>

\* the refresh() the handler awaits has finished
Awaited(hook) == [hook |-> hook, n |-> home.handler.awaits] \notin fetches

\* await of the first refresh() over: the handler calls the second
FirstDone ==
  /\ screen = "home"
  /\ home.handler.pc = "first"
  /\ Awaited(FirstHook(home.handler.name))
  /\ RefreshStart(At(home, home.handler.name, "second",
                     Request(SecondHook(home.handler.name)).n),
                  SecondHook(home.handler.name))
  /\ UNCHANGED <<back, auth, screen, db>>

\* await of the second refresh() over: the handler goes on to its end, or to
\* its 300 ms pause
SecondDone ==
  /\ screen = "home"
  /\ home.handler.pc = "second"
  /\ Awaited(SecondHook(home.handler.name))
  /\ home' =
       IF home.handler.name \in {"select", "create"}
         THEN At(home, home.handler.name, "delay", 0)
       ELSE IF home.handler.name = "delete"
         THEN [home EXCEPT !.toast = "success", !.handler = Idle]
       ELSE [home EXCEPT !.handler = Idle]
  /\ UNCHANGED <<back, auth, screen, hooks, fetches, db>>

\* the pause is over: setShowOpportunitySelector(false), then
\* setIsTransitioning(false)
DelayDone ==
  /\ screen = "home"
  /\ home.handler.pc = "delay"
  /\ home' = [home EXCEPT !.showOpportunitySelector = FALSE,
                          !.by = home.handler.name,
                          !.isTransitioning = FALSE, !.handler = Idle]
  /\ UNCHANGED <<back, auth, screen, hooks, fetches, db>>

----------------------------------------------------------------------------
\* The schema scripts, statement by statement

\* a statement: its line, its kind, the table it is on, the tables it refers to
Stmt(line, kind, table, refs) ==
  [line |-> line, kind |-> kind, table |-> table, refs |-> refs]

CreateTable(line, table, refs) == Stmt(line, "create_table", table, refs)
CreateIndex(line, table) == Stmt(line, "create_index", table, {table})
EnableRls(line, table) == Stmt(line, "enable_rls", table, {table})
CreatePolicy(line, table, refs) == Stmt(line, "create_policy", table, {table} \cup refs)
CommentOn(line, table) == Stmt(line, "comment", table, {table})
InsertRow(line, table) == Stmt(line, "insert", table, {table})
\* CREATE EXTENSION IF NOT EXISTS, CREATE OR REPLACE FUNCTION
Other(line) == Stmt(line, "other", "none", {})

\* supabase_schema.sql for several users, top to bottom
MultiUserScript ==
  << Other(5),
     CreateTable(8, "opportunities", {"auth.users"}),
     CreateTable(23, "phase_progress", {"opportunities"}),
     CreateTable(37, "artifacts", {"opportunities"}),
     CreateTable(50, "tasks", {"auth.users"}),
     CreateTable(61, "active_opportunity", {"auth.users", "opportunities"}),
     CreateIndex(70, "opportunities"),
     CreateIndex(71, "artifacts"),
     CreateIndex(72, "artifacts"),
     CreateIndex(73, "opportunities"),
     CreateIndex(74, "opportunities"),
     CreateIndex(75, "tasks"),
     CreateIndex(76, "tasks"),
     CreateIndex(77, "tasks"),
     CreateIndex(78, "phase_progress"),
     CreateIndex(79, "active_opportunity"),
     CreateIndex(80, "chatkit_threads"),
     EnableRls(83, "opportunities"),
     EnableRls(84, "artifacts"),
     EnableRls(85, "tasks"),
     EnableRls(86, "active_opportunity"),
     EnableRls(87, "chatkit_threads"),
     EnableRls(88, "chatkit_thread_items"),
     EnableRls(89, "phase_progress"),
     CreatePolicy(94, "opportunities", {}),
     CreatePolicy(96, "opportunities", {}),
     CreatePolicy(98, "opportunities", {}),
     CreatePolicy(100, "opportunities", {}),
     CreatePolicy(104, "artifacts", {"opportunities"}),
     CreatePolicy(108, "artifacts", {"opportunities"}),
     CreatePolicy(112, "artifacts", {"opportunities"}),
     CreatePolicy(116, "artifacts", {"opportunities"}),
     CreatePolicy(122, "phase_progress", {"opportunities"}),
     CreatePolicy(126, "phase_progress", {"opportunities"}),
     CreatePolicy(132, "tasks", {}),
     CreatePolicy(134, "tasks", {}),
     CreatePolicy(136, "tasks", {}),
     CreatePolicy(138, "tasks", {}),
     CreatePolicy(142, "active_opportunity", {}),
     CreatePolicy(144, "active_opportunity", {}),
     CreatePolicy(148, "chatkit_threads", {}),
     CreatePolicy(150, "chatkit_threads", {}),
     CreatePolicy(152, "chatkit_threads", {}),
     CreatePolicy(154, "chatkit_threads", {}),
     CreatePolicy(158, "chatkit_thread_items", {"chatkit_threads"}),
     CreatePolicy(162, "chatkit_thread_items", {"chatkit_threads"}),
     Other(168),
     CreateTable(178, "chatkit_threads", {"auth.users", "opportunities"}),
     CreateTable(189, "chatkit_thread_items", {"chatkit_threads"}),
     CreateIndex(199, "chatkit_threads"),
     CreateIndex(200, "chatkit_threads"),
     CreateIndex(201, "chatkit_thread_items"),
     CreateIndex(202, "chatkit_thread_items"),
     CommentOn(204, "opportunities"),
     CommentOn(205, "artifacts"),
     CommentOn(206, "tasks"),
     CommentOn(207, "phase_progress"),
     CommentOn(208, "active_opportunity"),
     CommentOn(209, "chatkit_threads"),
     CommentOn(210, "chatkit_thread_items") >>

\* supabase_schema.sql for a single user, top to bottom
SingleUserScript ==
  << Other(5),
     CreateTable(8, "opportunities", {}),
     CreateTable(22, "phase_progress", {"opportunities"}),
     CreateTable(36, "artifacts", {"opportunities"}),
     CreateTable(49, "tasks", {}),
     CreateTable(59, "active_opportunity", {"opportunities"}),
     InsertRow(66, "active_opportunity"),
     CreateIndex(70, "artifacts"),
     CreateIndex(71, "artifacts"),
     CreateIndex(72, "opportunities"),
     CreateIndex(73, "opportunities"),
     CreateIndex(74, "tasks"),
     CreateIndex(75, "tasks"),
     CreateIndex(76, "phase_progress"),
     Other(88),
     CommentOn(97, "opportunities"),
     CommentOn(98, "artifacts"),
     CommentOn(99, "tasks"),
     CommentOn(100, "phase_progress"),
     CommentOn(101, "active_opportunity") >>

ScriptOf(name) == IF name = "multi_user" THEN MultiUserScript ELSE SingleUserScript

\* the statement raises an error: a relation it names does not exist, or
\* the policy exists already (CREATE POLICY has no IF NOT EXISTS)
Raises(d, st) ==
  \/ ~(st.refs \subseteq d.tables)
  \/ st.kind = "create_policy" /\ st.line \in d.policies

\* ON CONFLICT: a row of the table has the same primary key (the only unique
\* constraint of active_opportunity in the single-user schema)
Conflicts(rows, row) == \E r \in rows : r.id = row.id

\* the database after a statement that raised no error
Executed(d, st) ==
  IF st.kind = "create_table" THEN [d EXCEPT !.tables = @ \cup {st.table}]
  ELSE IF st.kind = "create_policy" THEN [d EXCEPT !.policies = @ \cup {st.line}]
  ELSE IF st.kind = "insert"
    THEN [d EXCEPT !.serial = @ + 1,
                   !.rows = IF Conflicts(d.rows, [id |-> d.serial, opportunity_id |-> NULL])
                              THEN @
                              ELSE @ \cup {[id |-> d.serial, opportunity_id |-> NULL]}]
  ELSE d

\* the script is pasted into the SQL editor and run; mode says what an error
\* does: "transaction" undoes the run and stops it, "continue" goes on with
\* the next statement
StartRun(name, mode) ==
  /\ db.pc = 0
  /\ db.runs < MaxRuns
  /\ db.script \in {"none", name}
  /\ db' = [db EXCEPT !.script = name, !.mode = mode, !.pc = 1, !.failed = {},
                      !.saved = DbContent(db)]
  /\ UNCHANGED <<back, auth, screen, hooks, fetches, home>>

\* the run is over after the last statement
Advanced(d) ==
  IF d.pc = Len(ScriptOf(d.script))
    THEN [d EXCEPT !.pc = 0, !.runs = @ + 1]
    ELSE [d EXCEPT !.pc = @ + 1]

\* the next statement of the script runs
RunStatement ==
  /\ db.pc > 0
  /\ LET st == ScriptOf(db.script)[db.pc]
     IN db' =
          IF ~Raises(db, st) THEN Advanced(Executed(db, st))
          ELSE IF db.mode = "transaction"
            THEN [db EXCEPT !.tables = db.saved.tables,
                            !.policies = db.saved.policies,
                            !.rows = db.saved.rows,
                            !.failed = @ \cup {st.line},
                            !.pc = 0, !.runs = @ + 1]
          ELSE Advanced([db EXCEPT !.failed = @ \cup {st.line}])
  /\ UNCHANGED <<back, auth, screen, hooks, fetches, home>>

----------------------------------------------------------------------------
\* Steps by operation

CreateRejects ==
  \E u \in Users, n \in NameInputs, cn \in TextInputs, d \in TextInputs :
    CreateRejected(u, n, cn, d)

CreateSteps ==
  \/ \E u \in Users, n \in NameInputs, cn \in TextInputs, d \in TextInputs :
       CreateInsertOpportunity(u, n, cn, d)
  \/ \E c \in calls : CreateInsertPhases(c)

AddRejects ==
  \E u \in Users, o \in TargetIds, ty \in TypeInputs, ti \in TitleInputs,
     co \in TitleInputs : AddRejected(u, o, ty, ti, co)

AddSteps ==
  \/ \E u \in Users, o \in TargetIds : AddNotFound(u, o)
  \/ \E u \in Users, o \in TargetIds, ty \in TypeInputs, ti \in TitleInputs,
        co \in TitleInputs, p \in ArtPhaseInputs :
       AddInsertArtifact(u, o, ty, ti, co, p)
  \/ \E c \in calls : AddIncrement(c)

ChangeRejects ==
  \E u \in Users, o \in TargetIds, p \in PhaseInputs : ChangeRejected(u, o, p)

ChangeSteps ==
  \/ \E u \in Users, o \in TargetIds : ChangeNotFound(u, o)
  \/ \E u \in Users, o \in TargetIds, p \in PhaseInputs : ChangeUpdateOpp(u, o, p)
  \/ \E c \in calls : ChangeUpdatePhases(c)

\* changePhase to any phase of the set
JumpSteps ==
  \/ \E u \in Users, o \in TargetIds, p \in PHASES : ChangeUpdateOpp(u, o, p)
  \/ \E c \in calls : ChangeUpdatePhases(c)

CompletionSteps ==
  \E u \in Users, o \in TargetIds, p \in PercentPhaseInputs, pct \in PercentInputs :
    SetCompletion(u, o, p, pct)

ActivateSteps ==
  \E u \in Users, o \in TargetIds : ActivateNotFound(u, o) \/ Activate(u, o)

ClearSteps == \E u \in Users : Clear(u)

DeleteSteps ==
  \E u \in Users, o \in TargetIds : DeleteNotFound(u, o) \/ DeleteOpportunity(u, o)

ListSteps == \E u \in Users : ListOpportunities(u)

ContextSteps == \E u \in Users : GetActiveContext(u)

SnapshotSteps == \E u \in Users : GetActiveContextDuringAdd(u)

GetSteps == \E u \in Users, o \in TargetIds : GetOpportunity(u, o)

FetchSteps == \E u \in Users, aid \in 1..MaxArtifacts : GetArtifact(u, aid)

CreateForm ==
  \E u \in Users, n \in NameInputs, cn \in TextInputs, d \in TextInputs :
    CreateFormErrors(u, n, cn, d) \/ CreateFormSubmit(u, n, cn, d)

AddForm ==
  \E u \in Users, m \in ModeInputs, ty \in SelectInputs, ti \in TitleInputs,
     co \in TitleInputs, f \in FileInputs :
    \/ AddFormAlert(u, m, ty, ti, co, f)
    \/ \E o \in TargetIds, p \in ArtPhaseInputs :
         AddFormSubmit(u, o, m, ty, ti, co, f, << >>, p)

\* the artifact form filled in with tags
AddFormTagged ==
  \E u \in Users, o \in TargetIds, ty \in SelectInputs, ti \in TitleInputs,
     tg \in TagsInputs, p \in ArtPhaseInputs :
    AddFormSubmit(u, o, "type", ty, ti, ti, << >>, tg, p)

AddTaggedSteps == AddFormTagged \/ \E c \in calls : AddIncrement(c)

\* createOpportunity with stakeholders
CreateWithSteps ==
  \/ \E u \in Users, n \in NameInputs, cn \in TextInputs, d \in TextInputs,
        st \in StakeholderInputs : CreateInsertWith(u, n, cn, d, st)
  \/ \E c \in calls : CreateInsertPhases(c)

BothSteps ==
  \/ \E u \in Users, n \in NameInputs, cn \in TextInputs, d \in TextInputs :
       BothCreate(u, n, cn, d)
  \/ \E u \in Users, o \in TargetIds, ty \in TypeInputs, ti \in TitleInputs,
        p \in ArtPhaseInputs : BothAdd(u, o, ty, ti, ti, p)
  \/ \E u \in Users, o \in TargetIds : BothActivate(u, o)
  \/ \E u \in Users, o \in TargetIds : BothDelete(u, o)
  \/ \E u \in Users : BothList(u)
  \/ \E u \in Users : BothGetActive(u)

ProjectSteps ==
  \/ \E u \in Users, o \in TargetIds : GetContext(u, o)
  \/ \E u \in Users, o \in TargetIds, t \in TextInputs : AppendInsight(u, o, t)

AuthSteps ==
  \/ \E u \in Users \cup {NoUser} : SessionChecked(u)
  \/ \E u \in Users : SignIn(u)
  \/ SignOut

AnswerSteps ==
  \/ \E f \in fetches : \E b \in Bodies(f.hook) : RefreshOk(f, b)
  \/ \E f \in fetches : RefreshNotOk(f)
  \/ \E f \in fetches : RefreshThrow(f)

TimerSteps == \E t \in BOOLEAN : TimerFires(t)

ChatSteps == ChatResponseEnd

\* the session check ends with a user signed in
SessionSteps == \E u \in {"u1"} : SessionChecked(u)

handleSelectOpportunity == HandlerStart("select")

handleCreateOpportunity ==
  \/ OpenCreateModal
  \/ HandlerStart("create")
  \/ CreateOk
  \/ CreateNotOk
  \/ CreateThrow

handleDeleteOpportunity == HandlerStart("delete")

handlePhaseChange == OpenDrawer \/ HandlerStart("phase")

handleArtifactAdd == OpenDrawer \/ HandlerStart("artifact")

\* a handler goes on after an await
AwaitSteps ==
  \/ FetchOk
  \/ FetchNotOk
  \/ FetchThrow
  \/ FirstDone
  \/ SecondDone

HandlerSteps == AwaitSteps \/ DelayDone

SwitchSteps == handleChangeOpportunity

ToastSteps == CloseToast

RunModes == {"transaction", "continue"}

MultiUserSteps ==
  \/ \E m \in RunModes : StartRun("multi_user", m)
  \/ RunStatement

SingleUserSteps ==
  \/ \E m \in RunModes : StartRun("single_user", m)
  \/ RunStatement

Failure == \E c \in calls : FailUnavailable(c)

Next ==
  \/ CreateRejects \/ CreateSteps
  \/ AddRejects \/ AddSteps
  \/ ChangeRejects \/ ChangeSteps
  \/ ActivateSteps \/ ClearSteps
  \/ DeleteSteps
  \/ ListSteps \/ ContextSteps \/ SnapshotSteps \/ FetchSteps
  \/ GetSteps
  \/ CreateForm \/ AddForm
  \/ CreateWithSteps \/ AddTaggedSteps
  \/ JumpSteps
  \/ CompletionSteps
  \/ BothSteps
  \/ ProjectSteps
  \/ AuthSteps \/ AnswerSteps \/ TimerSteps \/ ChatSteps
  \/ SessionSteps
  \/ handleSelectOpportunity \/ handleCreateOpportunity
  \/ handleDeleteOpportunity \/ handlePhaseChange \/ handleArtifactAdd
  \/ HandlerSteps \/ SwitchSteps \/ ToastSteps
  \/ MultiUserSteps \/ SingleUserSteps
  \/ Tick
  \/ Failure

Spec == Init /\ [][Next]_vars

\* artifacts being added, concurrently, to opportunities that exist
NextArtifacts == CreateSteps \/ AddRejects \/ AddSteps

SpecArtifacts == Init /\ [][NextArtifacts]_vars

\* the phases of opportunities and of their artifacts
NextPhases ==
  \/ CreateRejects \/ CreateSteps
  \/ AddSteps
  \/ ChangeRejects \/ ChangeSteps

SpecPhases == Init /\ [][NextPhases]_vars

\* calls that may fail between two statements
NextFailures == CreateSteps \/ AddSteps \/ Failure

SpecFailures == Init /\ [][NextFailures]_vars

\* several owners on each other's opportunities
NextOwners ==
  \/ CreateSteps
  \/ AddSteps
  \/ ChangeSteps
  \/ ActivateSteps
  \/ DeleteSteps
  \/ ListSteps

SpecOwners == Init /\ [][NextOwners]_vars

\* opportunities deleted with what hangs on them
NextDelete ==
  \/ CreateSteps
  \/ AddSteps
  \/ ActivateSteps
  \/ DeleteSteps
  \/ ContextSteps \/ FetchSteps

SpecDelete == Init /\ [][NextDelete]_vars

\* the active pointer over the life of the opportunities
NextPointers == CreateSteps \/ ActivateSteps \/ DeleteSteps \/ ContextSteps

SpecPointers == Init /\ [][NextPointers]_vars

\* the two forms in front of the service, and the service called without them
NextForms ==
  \/ CreateForm \/ CreateRejects \/ CreateSteps
  \/ AddForm \/ AddRejects \/ AddSteps

SpecForms == Init /\ [][NextForms]_vars

\* the active opportunity read while artifacts are being added to it
NextSnapshots ==
  \/ CreateSteps
  \/ AddSteps
  \/ ActivateSteps
  \/ ContextSteps \/ SnapshotSteps

SpecSnapshots == Init /\ [][NextSnapshots]_vars

\* opportunities moved between any two phases
NextJumps == CreateSteps \/ JumpSteps

SpecJumps == Init /\ [][NextJumps]_vars

\* opportunities moved back and forth as time passes
NextDates == CreateSteps \/ ChangeSteps \/ Tick

SpecDates == Init /\ [][NextDates]_vars

\* phases with artifacts and a completion percentage, left and entered again
NextReentry == CreateSteps \/ AddSteps \/ ChangeSteps \/ CompletionSteps

SpecReentry == Init /\ [][NextReentry]_vars

\* the active pointer set, cleared and read
NextClear ==
  \/ CreateSteps
  \/ ActivateSteps \/ ClearSteps
  \/ DeleteSteps
  \/ ContextSteps

SpecClear == Init /\ [][NextClear]_vars

\* opportunities and artifacts created and fetched by id
NextRoundTrip ==
  \/ CreateWithSteps
  \/ AddTaggedSteps
  \/ GetSteps \/ FetchSteps

SpecRoundTrip == Init /\ [][NextRoundTrip]_vars

\* the same calls answered by the durable and by the ephemeral backend
NextBackends == BothSteps

SpecBackends == Init /\ [][NextBackends]_vars

\* contexts projected from an opportunity with many artifacts and insights
NextProject == ProjectSteps

SpecProject == InitProject /\ [][NextProject]_vars

\* signing in and out, Home loading its data
NextAuth == AuthSteps \/ AnswerSteps \/ TimerSteps \/ ChatSteps

SpecAuth == Init /\ [][NextAuth]_vars

\* the multi-user schema script run on a new database
NextMultiUser == MultiUserSteps

SpecMultiUser == Init /\ [][NextMultiUser]_vars

\* the single-user schema script run on a new database
NextSingleUser == SingleUserSteps

SpecSingleUser == Init /\ [][NextSingleUser]_vars

\* Home creating and selecting opportunities
NextCreate ==
  \/ SessionSteps \/ AnswerSteps \/ TimerSteps
  \/ handleCreateOpportunity \/ HandlerSteps

SpecCreate == Init /\ [][NextCreate]_vars

\* Home switching between the chat and the selector
NextSwitch ==
  \/ SessionSteps \/ AnswerSteps \/ TimerSteps \/ ChatSteps
  \/ SwitchSteps \/ handleSelectOpportunity \/ handleDeleteOpportunity
  \/ HandlerSteps

SpecSwitch == Init /\ [][NextSwitch]_vars

\* the hooks refreshed by the chat and by the drawer's handlers
NextHooks ==
  \/ SessionSteps \/ AnswerSteps \/ TimerSteps \/ ChatSteps
  \/ handlePhaseChange \/ AwaitSteps

SpecHooks == Init /\ [][NextHooks]_vars

\* phase changes cut short by an unreachable store
NextInterrupted == CreateSteps \/ ChangeSteps \/ Failure

SpecInterrupted == Init /\ [][NextInterrupted]_vars

----------------------------------------------------------------------------
\* Properties

\* the phase set as the contract spells it
ClaimedPhases == {"pre_assessment", "discovery", "solution_design", "implementation"}

\* every phase row of opp_id counts the artifacts filed under its phase
CountsMatch(opp_id) ==
  \A r \in PhaseRows(opp_id) :
    r.artifacts_count = Cardinality(ArtifactsIn(opp_id, r.phase))

\* one row for each claimed phase and no other row
FourPhaseRows(opp_id) ==
  /\ Cardinality(PhaseRows(opp_id)) = Cardinality(ClaimedPhases)
  /\ {r.phase : r \in PhaseRows(opp_id)} = ClaimedPhases

\* C1: once every addArtifact call on an opportunity has completed, its
\* artifactsCount is the number of its artifacts and each of its phase rows
\* counts exactly the artifacts filed under that phase, however the calls
\* interleaved.
C1_CountsAfterAdds ==
  \A o \in OppIds :
    CallsOn(o) = {} =>
      /\ OppArtifactsCount(o) = Cardinality({a \in artifacts : a.opportunity_id = o})
      /\ CountsMatch(o)

\* two addArtifact calls on one phase overlapped: the call that inserted
\* artifact 1 is the last to return and the row already counts 2
C1_Witness ==
  /\ calls = {}
  /\ response.op = "addArtifact" /\ response.result = "OK" /\ response.value = {1}
  /\ \E r \in phase_progress :
       /\ r.opportunity_id = response.opp /\ r.phase = response.phase
       /\ r.artifacts_count = 2

\* C2: after a call failed with Unavailable and nothing is in flight, every
\* opportunity has its four phase rows and every phase row counts its
\* artifacts (the failed call left nothing behind).
C2_FailureLeavesNothing ==
  (calls = {} /\ response.result = "Unavailable") =>
    \A o \in OppIds : FourPhaseRows(o) /\ CountsMatch(o)

\* C3: a changePhase to a phase of the set other than the current one sets
\* current_phase to the target, completes the phase left if it was
\* in_progress, starts the target if it was not_started, and changes no
\* artifact and no artifacts_count.
C3_ChangePhase ==
  [][/\ (\E c \in calls' \ calls : c.op = "changePhase")
          => (artifacts' = artifacts /\ phase_progress' = phase_progress)
     /\ \A o \in TargetIds, t \in ClaimedPhases :
       (/\ response'.op = "changePhase" /\ response'.result = "OK"
        /\ response'.opp = o /\ response'.phase = t
        /\ response'.value # {t}) =>
         /\ \E row \in opportunities' : row.id = o /\ row.current_phase = t
         /\ artifacts' = artifacts
         /\ \A r \in PhaseRows(o) : \E q \in PhaseRows(o)' :
              /\ q.phase = r.phase
              /\ q.artifacts_count = r.artifacts_count
              /\ (r.phase \in response'.value /\ r.status = "in_progress")
                   => q.status = "completed"
              /\ (r.phase = t /\ r.status = "not_started")
                   => q.status = "in_progress"]_vars

\* scenario C: moved from pre_assessment to discovery with an artifact filed
\* under pre_assessment
C3_Witness ==
  /\ response.op = "changePhase" /\ response.result = "OK"
  /\ response.phase = "discovery" /\ response.value = {"pre_assessment"}
  /\ \E row \in opportunities : row.id = response.opp /\ row.current_phase = "discovery"
  /\ \E r \in PhaseRows(response.opp) :
       r.phase = "pre_assessment" /\ r.status = "completed" /\ r.artifacts_count = 1
  /\ \E r \in PhaseRows(response.opp) :
       r.phase = "discovery" /\ r.status = "in_progress"
  /\ \E a \in ArtifactsOf(response.opp) : a.phase = "pre_assessment"

\* C4: a changePhase whose target is outside the four phases never reaches
\* the store: it is answered InvalidPhaseError and no row of any table
\* changes.
C4_InvalidPhase ==
  [][/\ \A c \in calls' : c.op = "changePhase" => c.phase \in ClaimedPhases
     /\ (response'.op = "changePhase" /\ response'.result = "OK")
          => response'.phase \in ClaimedPhases
     /\ (response'.op = "changePhase" /\ response'.result = "NotFound")
          => ~(\E row \in opportunities :
                 row.id = response'.opp /\ row.user_id = response'.owner)
     /\ (response'.op = "changePhase" /\ response'.result = "InvalidPhaseError")
          => /\ response'.phase \notin ClaimedPhases
             /\ UNCHANGED store]_vars

\* scenario D on an opportunity that has moved on and holds an artifact
C4_Witness ==
  /\ response.op = "changePhase" /\ response.result = "InvalidPhaseError"
  /\ response.phase = "nonexistent_phase"
  /\ \E row \in opportunities : row.id = response.opp /\ row.current_phase = "discovery"
  /\ ArtifactsOf(response.opp) # {}

\* C5: the opportunity a createOpportunity returns is in pre_assessment, is
\* active, has artifactsCount 0 and exactly one phase row per phase, with
\* pre_assessment in_progress and the other three not_started; a creation is
\* turned down only for a field that is blank after trimming.
C5_CreateResult ==
  /\ (response.op = "createOpportunity" /\ response.result = "OK") =>
       /\ \E row \in opportunities :
            /\ row.id = response.opp /\ row.user_id = response.owner
            /\ row.current_phase = "pre_assessment" /\ row.status = "active"
       /\ OppArtifactsCount(response.opp) = 0
       /\ FourPhaseRows(response.opp)
       /\ \A r \in PhaseRows(response.opp) :
            /\ r.artifacts_count = 0
            /\ r.status = IF r.phase = "pre_assessment"
                            THEN "in_progress" ELSE "not_started"
  /\ (response.op = "createOpportunity" /\ response.result = "ValidationError") =>
       response.value # {}

\* a second opportunity created while the first one has moved on
C5_Witness ==
  /\ response.op = "createOpportunity" /\ response.result = "OK"
  /\ response.opp = 2
  /\ \E row \in opportunities : row.id = 1 /\ row.current_phase = "discovery"

\* C6: when no call is in flight every opportunity has exactly one phase row
\* for each of the four phases, none for another phase, and a current_phase
\* among the four.
C6_PhaseRowsInvariant ==
  calls = {} =>
    \A row \in opportunities :
      FourPhaseRows(row.id) /\ row.current_phase \in ClaimedPhases

\* rows of the tables that do not belong to u
RowsOfOthers(u) ==
  <<{row \in opportunities : row.user_id # u},
    {r \in phase_progress :
       \E row \in opportunities : row.id = r.opportunity_id /\ row.user_id # u},
    {a \in artifacts :
       \E row \in opportunities : row.id = a.opportunity_id /\ row.user_id # u},
    {p \in active_opportunity : p.user_id # u}>>

\* no row hangs on an opportunity that is gone
NoOrphans ==
  /\ \A a \in artifacts : a.opportunity_id \in OppIds
  /\ \A r \in phase_progress : r.opportunity_id \in OppIds
  /\ \A p \in active_opportunity : p.opportunity_id \in OppIds \cup {NULL}

\* C7: a successful deleteOpportunity leaves no artifact and no phase row of
\* the opportunity, none of its former artifacts can be fetched by anyone,
\* and if it was the owner's active opportunity the owner has none active;
\* no read ever answers with a row of a deleted opportunity.
C7_DeleteCascades ==
  /\ [](/\ NoOrphans
        /\ (response.op = "getArtifact" /\ response.result = "OK") =>
             \E a \in artifacts : a.id \in response.value /\ a.opportunity_id \in OppIds
        /\ (response.op = "getActiveContext" /\ response.result = "OK") =>
             response.opp \in OppIds)
  /\ [][\A u \in Users, o \in TargetIds :
          (/\ response'.op = "deleteOpportunity" /\ response'.result = "OK"
           /\ response'.owner = u /\ response'.opp = o) =>
            /\ o \notin OppIds'
            /\ ArtifactsOf(o)' = {}
            /\ PhaseRows(o)' = {}
            /\ \A a \in ArtifactsOf(o), v \in Users : ~ArtifactVisible(v, a.id)'
            /\ ActivePointer(u) = o => GetActive(u)' = NULL]_vars

\* scenario E: the only opportunity ever created held artifact 1 and was the
\* owner's active one; it is deleted and artifact 1 is fetched
C7_Witness ==
  /\ response.op = "getArtifact" /\ response.result = "NotFound"
  /\ response.value = {1}
  /\ nextOppId = 2 /\ nextArtId = 2 /\ opportunities = {}
  /\ \E p \in active_opportunity :
       p.user_id = response.owner /\ p.opportunity_id = NULL

AllCounts ==
  <<{<<r.opportunity_id, r.phase, r.artifacts_count>> : r \in phase_progress},
    {<<o, OppArtifactsCount(o)>> : o \in TargetIds}>>

C12_BlankFieldsRejected ==
  /\ [](\A row \in opportunities :
          /\ Trim(row.name) # << >>
          /\ Trim(row.client_name) # << >>
          /\ Trim(row.description) # << >>)
  /\ [][((response'.op = "createOpportunity" /\ response'.result = "ValidationError")
          \/ response'.op = "CreateOpportunityModal") =>
            /\ opportunities' = opportunities
            /\ phase_progress' = phase_progress
            /\ calls' = calls
            /\ response'.value # {}]_vars

\* a creation with a whitespace-only name is turned down by the service while
\* an opportunity exists
C12_Witness ==
  /\ response.op = "createOpportunity" /\ response.result = "ValidationError"
  /\ "name" \in response.value
  /\ opportunities # {}

\* C13: in what a getActiveContext that ran while addArtifact calls were in
\* flight returned, the opportunity's artifactsCount is the number of
\* artifacts returned and the count of every phase is the number of returned
\* artifacts filed under that phase.
C13_SnapshotConsistent ==
  (response.op = "getActiveContext" /\ response.phase = "during_add") =>
    /\ response.value.artifactsCount = Cardinality(response.value.artifacts)
    /\ \A pc \in response.value.phaseCounts :
         pc[2] = Cardinality({a \in response.value.artifacts : a[2] = pc[1]})

\* C14: a phase row leaves not_started only in the step that completes a
\* changePhase whose target is that phase, and then becomes in_progress; a
\* row becomes completed only from in_progress, as the phase being left.  So
\* a phase that was skipped over stays not_started and a phase never entered
\* is never completed.
C14_SkippedStayNotStarted ==
  [][\A r \in phase_progress, q \in phase_progress' :
       (r.opportunity_id = q.opportunity_id /\ r.phase = q.phase) =>
         /\ (r.status = "not_started" /\ q.status # "not_started") =>
              /\ q.status = "in_progress"
              /\ response'.op = "changePhase" /\ response'.result = "OK"
              /\ response'.opp = r.opportunity_id /\ response'.phase = r.phase
         /\ (r.status # "completed" /\ q.status = "completed") =>
              /\ r.status = "in_progress"
              /\ response'.op = "changePhase" /\ response'.result = "OK"
              /\ response'.opp = r.opportunity_id /\ response'.value = {r.phase}]_vars

\* moved from pre_assessment directly to implementation: discovery and
\* solution_design are not_started
C14_Witness ==
  /\ response.op = "changePhase" /\ response.result = "OK"
  /\ response.phase = "implementation" /\ response.value = {"pre_assessment"}
  /\ \A r \in PhaseRows(response.opp) :
       r.status = CASE r.phase = "pre_assessment" -> "completed"
                    [] r.phase = "implementation" -> "in_progress"
                    [] OTHER -> "not_started"

\* C15: a phase row has a start_date exactly when it has left not_started;
\* the start_date is written in the step in which the phase is entered for
\* the first time (the creation for the first phase, the changePhase that
\* targets it for the others), with the time of that step, and no later
\* step, leaving and re-entering included, changes it.
C15_StartDateOnce ==
  /\ [](\A r \in phase_progress :
          (r.start_date # NULL) <=> (r.status # "not_started"))
  /\ [][\A r \in phase_progress, q \in phase_progress' :
          (r.opportunity_id = q.opportunity_id /\ r.phase = q.phase) =>
            /\ r.start_date # NULL => q.start_date = r.start_date
            /\ (r.start_date = NULL /\ q.start_date # NULL) =>
                 /\ q.start_date = now'
                 /\ response'.op = "changePhase" /\ response'.result = "OK"
                 /\ response'.opp = r.opportunity_id
                 /\ response'.phase = r.phase]_vars

\* pre_assessment, entered at time 1, was left for discovery at time 2 and
\* is re-entered at time 3 with the start_date it had
C15_Witness ==
  /\ response.op = "changePhase" /\ response.result = "OK"
  /\ response.phase = "pre_assessment" /\ response.value = {"discovery"}
  /\ now = 3
  /\ \E r \in PhaseRows(response.opp) : r.phase = "pre_assessment" /\ r.start_date = 1
  /\ \E r \in PhaseRows(response.opp) : r.phase = "discovery" /\ r.start_date = 2

\* C16: neither statement of a changePhase whose target phase is completed
\* changes the completion_percentage or the artifacts_count of that phase's
\* row, or any artifact filed under the phase.
C16_ReentryKeeps ==
  [][/\ (\E c \in calls' \ calls : c.op = "changePhase")
          => (artifacts' = artifacts /\ phase_progress' = phase_progress)
     /\ \A o \in TargetIds, r \in phase_progress :
          (/\ response'.op = "changePhase" /\ response'.result = "OK"
           /\ response'.opp = o /\ r.opportunity_id = o
           /\ response'.phase = r.phase /\ r.status = "completed") =>
            /\ \E q \in PhaseRows(o)' :
                 /\ q.phase = r.phase
                 /\ q.completion_percentage = r.completion_percentage
                 /\ q.artifacts_count = r.artifacts_count
            /\ ArtifactsIn(o, r.phase)' = ArtifactsIn(o, r.phase)]_vars

\* pre_assessment, completed at 50 percent with one artifact, is entered
\* again from discovery
C16_Witness ==
  /\ response.op = "changePhase" /\ response.result = "OK"
  /\ response.phase = "pre_assessment" /\ response.value = {"discovery"}
  /\ \E r \in PhaseRows(response.opp) :
       /\ r.phase = "pre_assessment" /\ r.status = "completed"
       /\ r.completion_percentage = 50 /\ r.artifacts_count = 1
  /\ ArtifactsIn(response.opp, "pre_assessment") # {}

\* C17: every clear(u) is answered OK, whether u had a pointer or not, and
\* leaves u with none selected and the pointer rows of the others as they
\* were; a clear that follows a clear of the same owner changes nothing; a
\* getActiveContext is answered OK or NoActive, and NoActive whenever the
\* owner has no pointer.
C17_ClearIdempotent ==
  /\ []((response.op = "getActiveContext") =>
          /\ response.result \in {"OK", "NoActive"}
          /\ ActivePointer(response.owner) = NULL => response.result = "NoActive")
  /\ [][\A u \in Users :
          (response'.op = "clear" /\ response'.owner = u) =>
            /\ response'.result = "OK"
            /\ GetActive(u)' = NULL
            /\ {p \in active_opportunity' : p.user_id = u} = {}
            /\ {p \in active_opportunity' : p.user_id # u}
                 = {p \in active_opportunity : p.user_id # u}
            /\ (response.op = "clear" /\ response.owner = u) =>
                 (active_opportunity' = active_opportunity /\ response'.value = {})]_vars

\* a clear found no pointer to remove for an owner who has an opportunity,
\* while the other owner's pointer is in place
C17_Witness ==
  /\ response.op = "clear" /\ response.result = "OK" /\ response.value = {}
  /\ \E row \in opportunities : row.user_id = response.owner
  /\ GetActive(response.owner) = NULL
  /\ \E p \in active_opportunity :
       p.user_id # response.owner /\ p.opportunity_id # NULL

C19_BackendsAgree ==
  /\ memResponse.result = response.result
  /\ memResponse.opp = response.opp
  /\ memResponse.value = response.value
  /\ MemIds = OppIds
  /\ MemArtifactIds = {a.id : a \in artifacts}
  /\ \A u \in Users : GetActive(u) = memory.active

C21_HomeOnlySignedIn ==
  /\ (screen = "home" \/ fetches # {}) =>
       (~auth.loading /\ auth.user # NoUser /\ screen = "home")
  /\ auth.loading => screen = "spinner"
  /\ (~auth.loading /\ auth.user = NoUser) => screen = "login"
  /\ (screen # "home") => \A h \in HookNames : hooks[h].issued = 0

\* Home shown to a signed-in user, the request for the active opportunity
\* answered and the one for the list pending
C21_Witness ==
  /\ screen = "home"
  /\ auth.user = "u2"
  /\ hooks["useOpportunity"].answer.kind = "ok"
  /\ [hook |-> "useOpportunities", n |-> 1] \in fetches

\* C22: in the first run of the multi-user script on an empty database no
\* statement raises an error: every table exists when a CREATE INDEX, ALTER
\* TABLE or CREATE POLICY names it.
C22_EveryStatementSucceeds ==
  (db.script = "multi_user" /\ db.runs = 0) => db.failed = {}

\* C23: whenever a run of the single-user script has ended, active_opportunity
\* holds exactly one row.
C23_OneRowAfterRuns ==
  (db.script = "single_user" /\ db.runs >= 1 /\ db.pc = 0) =>
    Cardinality(db.rows) = 1

\* C24: when handleCreateOpportunity finishes, isCreating and
\* isTransitioning are both false.
C24_CreateLeavesNoOverlay ==
  [][(home.handler.name = "create" /\ home'.handler = Idle /\ screen' = "home")
       => (~home'.isCreating /\ ~home'.isTransitioning)]_vars

\* C25: a selector displayed by Switch Opportunity is hidden only by
\* selecting or creating an opportunity.
C25_SelectorStays ==
  [][(/\ home.by = "switch"
      /\ home.showOpportunitySelector
      /\ ~home'.showOpportunitySelector
      /\ screen' = "home")
       => home'.by \in {"select", "create"}]_vars

\* C26: while a refresh() of a hook is pending its loading is true, and data
\* that is the answer to the call issued last stays until a call is issued.
C26_LastIssuedWins ==
  /\ [](\A h \in HookNames :
          (\E f \in fetches : f.hook = h) => hooks[h].loading)
  /\ [][\A h \in HookNames :
          (/\ hooks[h].from = hooks[h].issued
           /\ hooks'[h].issued = hooks[h].issued)
            => hooks'[h].from = hooks[h].from]_vars

C29_OneInProgress ==
  calls = {} =>
    \A row \in opportunities :
      /\ Cardinality({r \in PhaseRows(row.id) : r.status = "in_progress"}) <= 1
      /\ \A r \in PhaseRows(row.id) :
           r.status = "in_progress" => r.phase = row.current_phase

\* the counts of a set of phase rows added up
RECURSIVE SumCounts(_)
SumCounts(rows) ==
  IF rows = {} THEN 0
  ELSE (CHOOSE r \in rows : TRUE).artifacts_count
         + SumCounts(rows \ {CHOOSE r \in rows : TRUE})

\* C30: when no call is in flight, every artifact is filed under one of the
\* four phases and belongs to an existing opportunity, and the artifactsCount
\* of an opportunity with its four phase rows is the sum of their counts.
C30_ArtifactsFiled ==
  calls = {} =>
    /\ \A a \in artifacts :
         a.phase \in ClaimedPhases /\ a.opportunity_id \in OppIds
    /\ \A o \in OppIds :
         FourPhaseRows(o) => OppArtifactsCount(o) = SumCounts(PhaseRows(o))

====
